---- MODULE Spec2Model ----
(***************************************************************************)
(* Izhikevich spiking network of movie1(watts_strogatz).py.                *)
(*                                                                         *)
(* The script builds a directed graph with fixed out-degree k over N       *)
(* neurons, samples per-neuron parameters and edge weights, and lets       *)
(* FuncAnimation call update(t) once per frame.  Each call recomputes the  *)
(* input current from the stored potentials, then updates every neuron in  *)
(* place with izhikevich() followed by np.clip, then hands V to the        *)
(* scatter plot.                                                           *)
(*                                                                         *)
(* Numbers: the script computes in float64.  The model computes in fixed   *)
(* point with resolution 1/Scale; a product of two fixed-point numbers is  *)
(* rounded down (Mul).  Every quantity below is in units of 1/Scale.       *)
(*                                                                         *)
(* Random draws (np.random.choice, np.random.uniform) are nondeterministic *)
(* choices from finite subsets of their ranges.                            *)
(***************************************************************************)
EXTENDS Integers, FiniteSets, Sequences, TLC

\* ---- bounds of the model ------------------------------------------------
\* number of neurons (the script runs 200)
N == 3
\* number of animation frames (the script runs 200)
T == 2

\* ---- numeric representation ---------------------------------------------
Scale == 100

Neurons == 0 .. (N - 1)

\* x * y on fixed-point numbers, rounded down
Mul(x, y) == (x * y) \div Scale

\* ---- configuration -------------------------------------------------------
\* out-degrees tried for k; the values above N - 1 are the ones
\* np.random.choice(..., replace=False) rejects
KValues == 1 .. (N + 1)

VRest == (0 - 65) * Scale
VSeed == 60 * Scale
ISeed == 150 * Scale
VPeak == 30 * Scale
ClipLo == (0 - 80) * Scale
ClipHi == 80 * Scale
FireThreshold == 0

\* the parameter samples with c drawn from (58, 68), the sign lost
ParamChoicesPositiveC ==
    { [a |-> Scale \div 100, b |-> Scale \div 10,
       c |-> 68 * Scale, d |-> 2 * Scale],
      [a |-> Scale \div 50, b |-> Scale \div 5,
       c |-> 60 * Scale, d |-> 8 * Scale] }

\* np.random.uniform(0.01, 0.03), (0.1, 0.3), (-68, -58), (2, 10): two
\* sample points of each range, drawn per neuron
ParamChoices ==
    { [a |-> Scale \div 100, b |-> Scale \div 10,
       c |-> (0 - 68) * Scale, d |-> 2 * Scale],
      [a |-> Scale \div 50, b |-> Scale \div 5,
       c |-> (0 - 60) * Scale, d |-> 8 * Scale] }

\* np.random.uniform(0.8, 1.2) per edge
WVals == { (9 * Scale) \div 10 }

\* np.random.uniform(-0.5, 0.5, N): the vectors that give the even neurons x
\* and the odd neurons -x, for x one of two sample points
NoiseVals == { 0 - (Scale \div 4), Scale \div 4 }
NoiseVecs ==
    { [i \in Neurons |-> IF i % 2 = 0 THEN x ELSE 0 - x] : x \in NoiseVals }

VARIABLES
    pc,         \* position of the script / of update
    k,          \* out-degree
    G,          \* edges of the DiGraph: set of <<source, target>>
    params,     \* per-neuron a, b, c, d
    W,          \* weight matrix
    V, u, I,    \* module-level arrays
    idx,        \* loop variable i of the dynamics loop of update
    initDrawn,  \* FuncAnimation has drawn its initial frame
    frame,      \* frames of the sequence range(T) already drawn by save
    rendered,   \* array held by the scatter plot (sc.set_array)
    noise,      \* noise vector drawn by the running call of update
    Vprev,      \* V on entry to the running (or last) call of update
    uprev,      \* u on entry to the running (or last) call of update
    fired,      \* neurons whose reset branch ran in the running (or last) call
    firedPrev   \* the same for the call before it

vars == << pc, k, G, params, W, V, u, I, idx, initDrawn, frame, rendered,
           noise, Vprev, uprev, fired, firedPrev >>

\* completed calls of update
StepsDone == (IF initDrawn THEN 1 ELSE 0) + frame

\* ---- izhikevich(V, u, I, a, b, c, d) -------------------------------------
\* dV = 0.04 * V**2 + 5 * V + 140 - u + I
dVof(v, uu, ii) ==
    Mul((4 * Scale) \div 100, Mul(v, v)) + 5 * v + 140 * Scale - uu + ii

\* du = a * (b * V - u)
duof(v, uu, a, b) == Mul(a, Mul(b, v) - uu)

\* izhikevich with the line "u += d" of the reset branch left out
izhikevichNoIncrement(v, uu, ii, a, b, c, d) ==
    LET v1 == v + dVof(v, uu, ii)
        u1 == uu + duof(v, uu, a, b)
    IN  IF v1 >= VPeak THEN << c, u1 >> ELSE << v1, u1 >>

\* the pair <<V, u>> the function returns
izhikevich(v, uu, ii, a, b, c, d) ==
    LET v1 == v + dVof(v, uu, ii)
        u1 == uu + duof(v, uu, a, b)
    IN  IF v1 >= VPeak THEN << c, u1 + d >> ELSE << v1, u1 >>

\* a clip that applies the upper limit only
clipUpperOnly(x, lo, hi) == IF x > hi THEN hi ELSE x

\* np.clip(x, lo, hi)
clip(x, lo, hi) == IF x < lo THEN lo ELSE IF x > hi THEN hi ELSE x

\* ---- graph construction --------------------------------------------------
\* the population without the filter "if n != node"
OthersWithSelf(node) == Neurons

\* [n for n in range(N) if n != node]
Others(node) == Neurons \ {node}

\* np.random.choice(pop, kk) with replacement: never raises for a non-empty
\* population, and the kk draws may repeat
ChoiceWithReplacement(pop, kk) ==
    { [err |-> FALSE, targets |-> s] :
         s \in { t \in SUBSET pop : t # {} /\ Cardinality(t) <= kk } }

\* np.random.choice(pop, kk, replace=False): raises ValueError when kk exceeds
\* the population, otherwise returns kk distinct elements of it
Choice(pop, kk) ==
    IF kk > Cardinality(pop)
    THEN { [err |-> TRUE, targets |-> {}] }
    ELSE { [err |-> FALSE, targets |-> s] :
              s \in { t \in SUBSET pop : Cardinality(t) = kk } }

successors(i) == { j \in Neurons : << i, j >> \in G }

\* ---- update(t): propagation ----------------------------------------------
\* new_I accumulating on top of the previous I
CarryOver == I

\* new_I = np.zeros(N)
Zeros == [j \in Neurons |-> 0]

\* propagation without the test on V[i]
FiresAlways(v) == TRUE

\* if V[i] > 0
Fires(v) == v > FireThreshold

\* the stimulus without the factor 2
StimulusSingle(w, v, c) == Mul(w, v - c)

\* W[i, j] * (V[i]*2 - params["c"][i])
Stimulus(w, v, c) == Mul(w, v * 2 - c)

\* the loop "for i in range(N)" over the sources, from source i on, with acc
\* the value of new_I so far
RECURSIVE PropagateFrom(_, _)
PropagateFrom(i, acc) ==
    IF i >= N THEN acc
    ELSE PropagateFrom(i + 1,
           IF Fires(V[i])
           THEN [j \in Neurons |->
                    IF j \in successors(i)
                    THEN acc[j] + Stimulus(W[i, j], V[i], params[i].c)
                    ELSE acc[j]]
           ELSE acc)

\* the input current of neuron i recomputed from the potentials as they are
\* when neuron i is updated
LiveInput(i) == PropagateFrom(0, Zeros)[i] + noise[i]

\* the input current the dynamics loop reads for neuron i
DynamicsInput(i) == I[i]

\* ---- the script ----------------------------------------------------------
Init ==
    /\ pc = "build_graph"
    /\ k \in KValues
    /\ G = {}
    /\ params = << >>
    /\ W = << >>
    /\ V = << >>
    /\ u = << >>
    /\ I = << >>
    /\ idx = 0
    /\ initDrawn = FALSE
    /\ frame = 0
    /\ rendered = << >>
    /\ noise = << >>
    /\ Vprev = << >>
    /\ uprev = << >>
    /\ fired = {}
    /\ firedPrev = {}

\* lines 38-41: for every node, choose k targets and add the edges; the
\* first failing choice ends the script
BuildGraph ==
    /\ pc = "build_graph"
    /\ \E ch \in [Neurons -> UNION { Choice(Others(n), k) : n \in Neurons }] :
          /\ \A n \in Neurons : ch[n] \in Choice(Others(n), k)
          /\ IF \E n \in Neurons : ch[n].err
             THEN /\ pc' = "error"
                  /\ G' = G
             ELSE /\ pc' = "init_state"
                  /\ G' = { e \in Neurons \X Neurons :
                               e[2] \in ch[e[1]].targets }
    /\ UNCHANGED << k, params, W, V, u, I, idx, initDrawn, frame, rendered,
                    noise, Vprev, uprev, fired, firedPrev >>

\* lines 48-67: V, u, params, I, W
InitState ==
    /\ pc = "init_state"
    /\ V' = [i \in Neurons |-> IF i = 0 THEN VSeed ELSE VRest]
    /\ u' = [i \in Neurons |-> 0]
    /\ params' \in [Neurons -> ParamChoices]
    /\ I' = [i \in Neurons |-> IF i = 0 THEN ISeed ELSE 0]
    /\ \E wf \in [G -> WVals] :
          W' = [e \in Neurons \X Neurons |-> IF e \in G THEN wf[e] ELSE 0]
    /\ pc' = "ready"
    /\ UNCHANGED << k, G, idx, initDrawn, frame, rendered, noise, Vprev,
                    uprev, fired, firedPrev >>

\* lines 129-132 calling update, lines 104-115 of update: FuncAnimation.save
\* draws the initial frame with the first item of range(T) and then every
\* item of range(T); update computes new_I and adds the noise
Propagate ==
    /\ pc = "ready"
    /\ (~initDrawn) \/ frame < T
    /\ \E nz \in NoiseVecs :
          /\ noise' = nz
          /\ I' = [j \in Neurons |-> PropagateFrom(0, Zeros)[j] + nz[j]]
    /\ Vprev' = V
    /\ uprev' = u
    /\ firedPrev' = fired
    /\ fired' = {}
    /\ idx' = 0
    /\ pc' = "dynamics"
    /\ UNCHANGED << k, G, params, W, V, u, initDrawn, frame, rendered >>

\* lines 118-120, one iteration of the loop
Dynamics ==
    /\ pc = "dynamics"
    /\ idx < N
    /\ LET r == izhikevich(V[idx], u[idx], DynamicsInput(idx), params[idx].a,
                           params[idx].b, params[idx].c, params[idx].d)
       IN  /\ V' = [V EXCEPT ![idx] = clip(r[1], ClipLo, ClipHi)]
           /\ u' = [u EXCEPT ![idx] = r[2]]
    /\ fired' = IF V[idx] + dVof(V[idx], u[idx], DynamicsInput(idx)) >= VPeak
                THEN fired \cup {idx} ELSE fired
    /\ idx' = idx + 1
    /\ pc' = IF idx + 1 = N THEN "render" ELSE "dynamics"
    /\ UNCHANGED << k, G, params, W, I, initDrawn, frame, rendered, noise,
                    Vprev, uprev, firedPrev >>

\* lines 123-126: sc.set_array(V), return to the animation
Render ==
    /\ pc = "render"
    /\ rendered' = V
    /\ IF initDrawn
       THEN frame' = frame + 1 /\ initDrawn' = initDrawn
       ELSE initDrawn' = TRUE /\ frame' = frame
    /\ pc' = "ready"
    /\ UNCHANGED << k, G, params, W, V, u, I, idx, noise, Vprev, uprev,
                    fired, firedPrev >>

\* line 132 returns: the frame sequence is exhausted
Finish ==
    /\ pc = "ready"
    /\ initDrawn
    /\ frame = T
    /\ pc' = "done"
    /\ UNCHANGED << k, G, params, W, V, u, I, idx, initDrawn, frame,
                    rendered, noise, Vprev, uprev, fired, firedPrev >>

Next ==
    \/ BuildGraph
    \/ InitState
    \/ Propagate
    \/ Dynamics
    \/ Render
    \/ Finish

Spec == Init /\ [][Next]_vars

\* ---- vocabulary of the properties ----------------------------------------
RECURSIVE SumOver(_, _)
SumOver(S, f) ==
    IF S = {} THEN 0
    ELSE LET x == CHOOSE y \in S : TRUE
         IN  f[x] + SumOver(S \ {x}, f)

\* propagated current into j from the potentials Vv, leaving out the sources
\* in excl: the sum of W[s,j]*(2*Vv[s] - c_s) over the predecessors s of j
\* with Vv[s] > 0
Incoming(Vv, j, excl) ==
    SumOver({ s \in Neurons \ excl : << s, j >> \in G /\ Vv[s] > 0 },
            [s \in Neurons |->
                (W[s, j] * (2 * Vv[s] - params[s].c)) \div Scale])

\* update is running, between its propagation and its return
InStep == pc \in {"dynamics", "render"}

\* number of the call of update that noise, Vprev, uprev, fired describe
CallNo == IF InStep THEN StepsDone + 1 ELSE StepsDone

\* neurons the dynamics loop of that call has already updated
Updated == { i \in Neurons : CallNo >= 1 /\ i < idx }

SetUp == pc \in {"ready", "dynamics", "render", "done"}

\* ---- C1 ------------------------------------------------------------------
\* C1: once the arrays exist, and after every update of a neuron, hence after
\* every completed step, every stored potential lies in [-80, 80].
C1_ClampRange ==
    SetUp => \A i \in Neurons : ClipLo <= V[i] /\ V[i] <= ClipHi

\* a completed step in which the clamp acted on a neuron
C1_Witness ==
    /\ pc = "ready"
    /\ StepsDone >= 1
    /\ \E i \in Neurons :
          /\ V[i] = ClipLo
          /\ Vprev[i] + dVof(Vprev[i], uprev[i], I[i]) < ClipLo

\* ---- C2 ------------------------------------------------------------------
\* C2: for every neuron already updated in a step, if V + dV >= 30 the stored
\* potential is c_i and u grew by du + d_i; otherwise the stored potential is
\* the clamped V + dV and u grew by du alone.
C2_ResetRule ==
    \A i \in Updated :
        LET pre == Vprev[i] + dVof(Vprev[i], uprev[i], I[i])
            reg == uprev[i] + duof(Vprev[i], uprev[i], params[i].a, params[i].b)
        IN  IF pre >= VPeak
            THEN V[i] = params[i].c /\ u[i] = reg + params[i].d
            ELSE V[i] = clip(pre, ClipLo, ClipHi) /\ u[i] = reg

\* a completed step with a neuron that reset and one that did not
C2_Witness ==
    /\ pc = "ready"
    /\ \E i \in Updated :
          Vprev[i] + dVof(Vprev[i], uprev[i], I[i]) >= VPeak
    /\ \E i \in Updated :
          Vprev[i] + dVof(Vprev[i], uprev[i], I[i]) < VPeak

\* ---- C3 ------------------------------------------------------------------
\* C3: a neuron i whose potential on entry to the step is <= 0 adds nothing
\* to the input current of any neuron j (the current of j is the noise plus
\* the contributions of the sources other than i), and i itself receives its
\* noise plus the contributions of its firing predecessors.
C3_NonPropagation ==
    CallNo >= 1 =>
        \A i \in Neurons :
            Vprev[i] <= 0 =>
                /\ \A j \in Neurons :
                       I[j] = noise[j] + Incoming(Vprev, j, {i})
                /\ I[i] = noise[i] + Incoming(Vprev, i, {})

\* a neuron at or below 0 that has successors and receives current from a
\* predecessor above 0
C3_Witness ==
    /\ InStep
    /\ \E i \in Neurons, s \in Neurons :
          /\ Vprev[i] <= 0
          /\ successors(i) # {}
          /\ Vprev[s] > 0
          /\ << s, i >> \in G
          /\ I[i] # noise[i]

\* ---- C4 ------------------------------------------------------------------
\* C4: while the dynamics loop of a step runs, every neuron it has not reached
\* still holds the potential and recovery variable left by the previous step,
\* every neuron it has updated was updated with the current computed from the
\* potentials left by the previous step, and the scatter plot still holds
\* what the previous step emitted (nothing, in the first step).
C4_Ordering ==
    InStep =>
        /\ \A i \in Neurons \ Updated : V[i] = Vprev[i] /\ u[i] = uprev[i]
        /\ \A i \in Updated :
              LET r == izhikevich(Vprev[i], uprev[i],
                                  noise[i] + Incoming(Vprev, i, {}),
                                  params[i].a, params[i].b, params[i].c,
                                  params[i].d)
              IN  V[i] = clip(r[1], ClipLo, ClipHi) /\ u[i] = r[2]
        /\ rendered = (IF StepsDone = 0 THEN << >> ELSE Vprev)

\* the loop is half way, and a neuron it has not reached would receive a
\* different current from the potentials as they are now
C4_Witness ==
    /\ pc = "dynamics"
    /\ 0 < idx
    /\ \E j \in Neurons \ Updated :
          Incoming(V, j, {}) # Incoming(Vprev, j, {})

\* ---- C5 ------------------------------------------------------------------
\* C5: once T calls of update have completed, no step changes V, u or I.
C5_NoStepAfterT ==
    [][StepsDone >= T => (V' = V /\ u' = u /\ I' = I)]_vars

\* ---- C6 ------------------------------------------------------------------
\* C6: when 0 < k < N the graph construction succeeds and leaves every node
\* with exactly k successors, none of them the node itself (k edges added per
\* node and k successors: no target was chosen twice), and no step after the
\* construction changes the edge set.
C6_FixedOutDegree ==
    /\ [](pc # "build_graph" =>
            /\ (0 < k /\ k < N) => pc # "error"
            /\ pc # "error" =>
                  \A n \in Neurons :
                      /\ Cardinality(successors(n)) = k
                      /\ n \notin successors(n))
    /\ [][pc # "build_graph" => G' = G]_vars

\* the run is over with a graph of out-degree 2
C6_Witness ==
    /\ pc = "done"
    /\ k = 2
    /\ \A n \in Neurons : Cardinality(successors(n)) = 2

\* ---- C7 ------------------------------------------------------------------
\* C7: with k >= N the script never gets past the graph construction: no
\* edge, no state array, no call of update.
C7_SetupFails ==
    k >= N =>
        /\ pc \in {"build_graph", "error"}
        /\ G = {}
        /\ V = << >>
        /\ u = << >>
        /\ StepsDone = 0

\* the construction has failed for k = N
C7_Witness == pc = "error" /\ k = N

\* ---- C8 ------------------------------------------------------------------
\* C8: after the first step neuron 0 holds c_0, every successor j of neuron 0
\* received the propagated current W[0,j]*(2*60 - c_0), which is not zero,
\* and every other neuron received its noise only.
C8_FirstStep ==
    (pc = "ready" /\ StepsDone = 1) =>
        /\ V[0] = params[0].c
        /\ \A j \in Neurons :
              IF << 0, j >> \in G
              THEN /\ I[j] - noise[j] =
                         (W[0, j] * (2 * 60 * Scale - params[0].c)) \div Scale
                   /\ I[j] - noise[j] # 0
              ELSE I[j] = noise[j]

\* the first step is complete and some neuron other than 0 is no successor
\* of neuron 0
C8_Witness ==
    /\ pc = "ready"
    /\ StepsDone = 1
    /\ \E j \in Neurons \ {0} : << 0, j >> \notin G

C10_BelowPeak ==
    /\ \A i \in Updated :
          /\ V[i] < VPeak
          /\ i \in fired => (V[i] = params[i].c /\ V[i] < 0)
    /\ CallNo >= 2 =>
          \A i \in Neurons :
              /\ i \in firedPrev =>
                    /\ Vprev[i] = params[i].c
                    /\ \A j \in Neurons :
                          I[j] = noise[j] + Incoming(Vprev, j, {i})
              /\ (\E j \in Neurons :
                     I[j] # noise[j] + Incoming(Vprev, j, {i})) =>
                    /\ 0 < Vprev[i]
                    /\ Vprev[i] < VPeak
                    /\ i \notin firedPrev

\* the second step runs after a step in which a neuron with successors reset
C10_Witness ==
    /\ pc = "render"
    /\ CallNo = 2
    /\ \E i \in firedPrev : successors(i) # {}

====
